---- MODULE Spec2Model ----
(***************************************************************************)
(* Model of the WhatsApp expense-tracker webhook.  Two implementations of  *)
(* the dispatcher exist in the repository: the route registered in         *)
(* src/app.js and the refactored handleWebhook of                          *)
(* src/controllers/webhookController.js.  A deployment runs one of them;   *)
(* the variable impl says which.  Each handler is an async function: the   *)
(* code between two awaits is one step, and a call to the database is two  *)
(* steps (the store executes the statement, then the handler resumes), so  *)
(* that another handler can run in between.                                *)
(***************************************************************************)
EXTENDS Integers, Sequences, FiniteSets, TLC

VARIABLES impl, users, expenses, userOnboardingState, globals, handler, finished, deliveries,
          sender, api

vars == <<impl, users, expenses, userOnboardingState, globals, handler, finished, deliveries,
          sender, api>>

(***************************************************************************)
(* Bounds                                                                  *)
(***************************************************************************)
MaxDeliveries == 3
MaxOnboardingDeliveries == 3
MaxReceiptDeliveries == 2
MaxRaceDeliveries == 4
MaxOnePhoneDeliveries == 3
MaxRetryDeliveries == 3
MaxOrderedDeliveries == 6

Handlers == {"h1", "h2"}
Phones == {"+1", "+2"}

(***************************************************************************)
(* Strings are sequences of one-character strings, so that toLowerCase,    *)
(* includes, trim and the regular expression are computed as in the code.  *)
(***************************************************************************)
UpperChars == <<"A","B","C","D","E","F","G","H","I","J","K","L","M",
                "N","O","P","Q","R","S","T","U","V","W","X","Y","Z">>
LowerChars == <<"a","b","c","d","e","f","g","h","i","j","k","l","m",
                "n","o","p","q","r","s","t","u","v","w","x","y","z">>

LowerChar(c) ==
  IF \E i \in 1..26 : UpperChars[i] = c
  THEN LowerChars[CHOOSE i \in 1..26 : UpperChars[i] = c]
  ELSE c

toLowerCase(s) == [i \in 1..Len(s) |-> LowerChar(s[i])]

includes(s, t) ==
  \E i \in 0..(Len(s) - Len(t)) : SubSeq(s, i + 1, i + Len(t)) = t

IsSpace(c) == c \in {" ", "\t", "\n"}

trim(s) ==
  IF \A i \in 1..Len(s) : IsSpace(s[i])
  THEN << >>
  ELSE LET first == CHOOSE i \in 1..Len(s) :
                      /\ ~IsSpace(s[i])
                      /\ \A j \in 1..(i - 1) : IsSpace(s[j])
           last  == CHOOSE i \in 1..Len(s) :
                      /\ ~IsSpace(s[i])
                      /\ \A j \in (i + 1)..Len(s) : IsSpace(s[j])
       IN  SubSeq(s, first, last)

\* /^[^\s@]+@[^\s@]+\.[^\s@]+$/ : s = A @ B . C with A, B, C non-empty and
\* free of whitespace and "@".
PlainChar(c) == ~IsSpace(c) /\ c # "@"

\* Mutant of emailRegexTest: /^[^\s@]+@[^\s@]+$/, without the dot.
emailRegexTest_NoDot(s) ==
  \E i \in 1..Len(s) :
    /\ s[i] = "@"
    /\ 1 < i
    /\ i < Len(s)
    /\ \A k \in 1..Len(s) : k # i => PlainChar(s[k])

emailRegexTest(s) ==
  \E i \in 1..Len(s) : \E j \in 1..Len(s) :
    /\ s[i] = "@"
    /\ s[j] = "."
    /\ 1 < i
    /\ i + 1 < j
    /\ j < Len(s)
    /\ \A k \in 1..Len(s) : k # i => PlainChar(s[k])

startsWith(s, t) == Len(t) <= Len(s) /\ SubSeq(s, 1, Len(t)) = t

S_join    == <<"j","o","i","n">>
S_summary == <<"s","u","m","m","a","r","y">>
S_month   == <<"m","o","n","t","h">>
S_year    == <<"y","e","a","r">>
S_ytd     == <<"y","t","d">>
S_image   == <<"i","m","a","g","e","/">>

\* Message bodies the gateway delivers.
B_Join     == <<"o","k"," ","J","O","I","N">>
B_Name     == <<" ","A","l"," ">>
B_Email    == <<"a","@","b",".","c","o"," ">>
B_NoDot    == <<"a","@","b">>
B_NoAt     == <<"a","b",".","c","o">>
B_Space    == <<"a"," ","@","b",".","c">>
B_Summary  == <<"S","u","m","m","a","r","y"," ","y","t","d">>
B_Empty    == << >>

Bodies == {B_Join, B_Name, B_Email, B_NoDot, B_NoAt, B_Space, B_Summary, B_Empty}

T_jpeg == <<"i","m","a","g","e","/","j","p","e","g">>
T_pdf  == <<"a","p","p","l","i","c","a","t","i","o","n","/","p","d","f">>

(***************************************************************************)
(* Requests.  From is "whatsapp:" followed by the number; a media message  *)
(* carries one medium with its content type and URL.                       *)
(***************************************************************************)
W_prefix == "whatsapp:"

Froms == {<<W_prefix, p>> : p \in Phones}

\* From.replace('whatsapp:', '') : drops the first occurrence of the prefix.
replaceWhatsapp(from) ==
  IF \E i \in 1..Len(from) : from[i] = W_prefix
  THEN LET i == CHOOSE i \in 1..Len(from) :
                  /\ from[i] = W_prefix
                  /\ \A j \in 1..(i - 1) : from[j] # W_prefix
       IN  SubSeq(from, 1, i - 1) \o SubSeq(from, i + 1, Len(from))
  ELSE from

phoneOf(req) == replaceWhatsapp(req.From)[1]

NoMedia == [NumMedia |-> "0", MediaContentType0 |-> << >>, MediaUrl0 |-> ""]

\* The gateway stores each medium under a URL of its own: the photo a phone
\* sends (and sends again, when the delivery is repeated) and its document.
ImageUrl(p) == IF p = "+1" THEN "u1" ELSE "u2"

ImageOf(p) == [NumMedia |-> "1", MediaContentType0 |-> T_jpeg, MediaUrl0 |-> ImageUrl(p)]

PdfOf(p) == [NumMedia |-> "1", MediaContentType0 |-> T_pdf, MediaUrl0 |-> "doc"]

TextRequests ==
  {[From |-> f, Body |-> b, MessageStatus |-> "", Media |-> NoMedia] : f \in Froms, b \in Bodies}

MediaRequests ==
  UNION {{[From |-> <<W_prefix, p>>, Body |-> B_Empty, MessageStatus |-> "", Media |-> m] :
            m \in {ImageOf(p), PdfOf(p)}} : p \in Phones}

\* A delivery-status callback for a message the bot sent.
StatusRequests ==
  {[From |-> <<W_prefix, "+0">>, Body |-> B_Empty, MessageStatus |-> "delivered",
    Media |-> NoMedia]}

Requests == TextRequests \cup MediaRequests \cup StatusRequests

NoReq == [From |-> << >>, Body |-> << >>, MessageStatus |-> "", Media |-> NoMedia]

\* NumMedia === '1' && MediaContentType0.startsWith('image/')
isReceiptImage(req) ==
  /\ req.Media.NumMedia = "1"
  /\ startsWith(req.Media.MediaContentType0, S_image)

(***************************************************************************)
(* The store: users (unique index on phone) and expenses.                  *)
(***************************************************************************)
NoUser == [id |-> 0, phone |-> "", name |-> << >>, email |-> << >>]

N_Bob == <<"B","o","b">>
N_Default == <<"W","h","a","t","s","A","p","p"," ","U","s","e","r">>

SeedUser(p) == [id |-> IF p = "+1" THEN 1 ELSE 2, phone |-> p, name |-> N_Bob, email |-> << >>]

usersByPhone(p) == {u \in users : u.phone = p}

NoParsed == [merchant |-> "", amount |-> 0, date |-> "", category |-> "",
             currency |-> "", language |-> ""]

\* The text the extraction service reads from an image and the record the
\* parsing service returns for a text.
TextOf(url) == IF url = "u1" THEN "t1" ELSE "t2"

ParsedOf(text) ==
  IF text = "t1"
  THEN [merchant |-> "m1", amount |-> 22, date |-> "d1", category |-> "Food",
        currency |-> "AED", language |-> "ar"]
  ELSE [merchant |-> "m2", amount |-> 7, date |-> "d2", category |-> "Fuel",
        currency |-> "USD", language |-> "en"]

NoExpense == [id |-> 0, user_id |-> 0, image_url |-> "", merchant |-> "", amount |-> 0,
              date |-> "", category |-> "", currency |-> "", language |-> "",
              status |-> ""]

expenseRow(userId, imageUrl, parsedReceipt) ==
  [id |-> 0, user_id |-> userId, image_url |-> imageUrl,
   merchant |-> parsedReceipt.merchant, amount |-> parsedReceipt.amount,
   date |-> parsedReceipt.date, category |-> parsedReceipt.category,
   currency |-> parsedReceipt.currency, language |-> parsedReceipt.language,
   status |-> "pending"]

(***************************************************************************)
(* The onboarding map and the handlers.                                    *)
(***************************************************************************)
Absent == [step |-> "absent", data |-> << >>]

NoIo == [tag |-> "none", row |-> NoUser]
Answer(tag) == [tag |-> tag, row |-> NoUser]
Pending == [tag |-> "pending", row |-> NoUser]

Idle == [pc |-> "idle", req |-> NoReq, io |-> NoIo,
         user |-> NoUser, newUser |-> NoUser, text |-> "",
         parsed |-> NoParsed, expense |-> NoExpense, sent |-> << >>,
         resp |-> "none", err |-> "", caught |-> ""]

\* The handling that ended in the last step, if one did: its request, the
\* messages it asked the gateway to send, its response and the error thrown.
NoFinished == [req |-> NoReq, sent |-> << >>, resp |-> "", err |-> "", caught |-> ""]

NoGlobals == [imageUrl |-> "", extractedText |-> "", parsedReceipt |-> NoParsed]

\* One call of sendWhatsAppMessage followed attempt by attempt: the arguments,
\* the retries left, the calls of messages.create made, the milliseconds
\* waited and the code of the error the last attempt threw (0: none).
SenderIdle == [pc |-> "idle", to |-> "", body |-> "", retries |-> 0, attempts |-> 0,
               delays |-> 0, error |-> 0]

\* The categoryBreakdown of a summary: category |-> sum.
NoBreakdown == [c \in {} |-> 0]

\* One request to the REST routes (the expense listing and the summary): the
\* route and its parameters, the answer of the user lookup, the start of the
\* window, the rows the store returned, what was computed, the messages sent,
\* whether the generative service was called, and the status of the response.
ApiIdle == [pc |-> "idle", route |-> "", phone |-> "", period |-> "", now |-> 0,
            io |-> NoIo, lookup |-> "", user |-> NoUser, startDate |-> 0,
            rows |-> << >>, totalSpend |-> 0, categoryBreakdown |-> NoBreakdown,
            table |-> << >>, summary |-> "", sent |-> << >>, generated |-> FALSE,
            resp |-> ""]

Init ==
  /\ impl \in {"app", "controller"}
  /\ users \in {{SeedUser(p) : p \in R} : R \in SUBSET Phones}
  /\ expenses = {}
  /\ userOnboardingState = [p \in Phones |-> Absent]
  /\ globals = NoGlobals
  /\ handler = [h \in Handlers |-> Idle]
  /\ finished = NoFinished
  /\ deliveries = 0
  /\ sender = SenderIdle
  /\ api = ApiIdle

DefaultRetries == 3

Max(S) == CHOOSE x \in S : \A y \in S : y <= x

\* crypto.randomUUID(): an identifier no row has.
freshUserId == 1 + Max({u.id : u \in users} \cup {0})
freshExpenseId == 1 + Max({e.id : e \in expenses} \cup {0})

\* Handler h goes on as r; a handler that is done frees its slot and leaves
\* its outcome in finished for one step.  A webhook handler touches neither
\* the sender followed on its own nor the REST routes.
Set(h, r) ==
  /\ IF r.pc = "done"
     THEN /\ handler' = [handler EXCEPT ![h] = Idle]
          /\ finished' = [req |-> r.req, sent |-> r.sent, resp |-> r.resp, err |-> r.err,
                           caught |-> r.caught]
     ELSE /\ handler' = [handler EXCEPT ![h] = r]
          /\ finished' = NoFinished
  /\ UNCHANGED <<sender, api>>

Finished(r, status, e) ==
  [Idle EXCEPT !.pc = "done", !.req = r.req, !.sent = r.sent, !.resp = status, !.err = e,
               !.caught = r.caught]

\* The outer catch of the handler: res.status(500).json({ error: error.message })
Fail(r, e) == Finished(r, "500", e)

\* return, with or without a response.
Return(r, status) == Finished(r, status, "")

\* sendWhatsAppMessage(to, body, retries) against a gateway whose attempts end
\* as outcomes says, one after the other: "sent" when an attempt succeeds,
\* else the error thrown; attempts counts the calls of messages.create.
RECURSIVE sendWhatsAppMessage(_, _, _)
sendWhatsAppMessage(outcomes, retries, attempts) ==
  IF Head(outcomes) = "ok"
  THEN [result |-> "sent", attempts |-> attempts + 1]
  ELSE IF Head(outcomes) = "rate_limit" /\ retries > 0
  THEN sendWhatsAppMessage(Tail(outcomes), retries - 1, attempts + 1)
  ELSE [result |-> Head(outcomes), attempts |-> attempts + 1]

\* The gateway's answers to the attempts of one call: it reports the rate
\* limit k times and then accepts or rejects the message, or reports the rate
\* limit to the initial attempt and to every retry.
GatewayRun(k, last) == [i \in 1..(k + 1) |-> IF i <= k THEN "rate_limit" ELSE last]

GatewayRuns ==
  {GatewayRun(k, last) : k \in 0..DefaultRetries, last \in {"ok", "error"}}
    \cup {GatewayRun(DefaultRetries, "rate_limit")}

\* The ways a call of sendWhatsAppMessage can end.
SendResults == {sendWhatsAppMessage(run, DefaultRetries, 0).result : run \in GatewayRuns}

\* The catch of the receipt try block: await the send of the failure message,
\* then (app.js) throw the error again or (controller) fall through to return.
\* A send that throws inside the catch reaches the outer catch.
ReceiptCatch(r, e, failedSend) ==
  LET q == [r EXCEPT !.sent = Append(@, "receipt_failed"), !.caught = e]
  IN  IF failedSend # "sent" THEN Fail(q, failedSend)
      ELSE IF impl = "app" THEN Fail(q, e)
      ELSE Return(q, "none")

\* await sendWhatsAppMessage(phone, m) outside the receipt try block, followed
\* by a return with the given response.  The gateway is the only party a send
\* touches and nothing but the response follows it, so the send and the
\* return are one step with the code before them.
SendAndReturn(r, m, status, result) ==
  LET q == [r EXCEPT !.sent = Append(@, m)]
  IN  IF result = "sent" THEN Return(q, status) ELSE Fail(q, result)

\* Body.toLowerCase().includes('join'), Body.trim() and emailRegex.test(email),
\* tabulated over the bodies.
containsJoin == [b \in Bodies |-> includes(toLowerCase(b), S_join)]
containsSummary == [b \in Bodies |-> includes(toLowerCase(b), S_summary)]
trimmed == [b \in Bodies |-> trim(b)]
validEmail == [b \in Bodies |-> emailRegexTest(trim(b))]

\* Mutant of branchOf: the onboarding entry is tested before "join".
branchOf_OnboardingFirst(req) ==
  IF req.MessageStatus # "" THEN "status"
  ELSE IF userOnboardingState[phoneOf(req)].step # "absent"
  THEN userOnboardingState[phoneOf(req)].step
  ELSE IF containsJoin[req.Body] THEN "join"
  ELSE "lookup"

\* Mutant of branchOf: the onboarding entry is not tested.
branchOf_IgnoresOnboarding(req) ==
  IF req.MessageStatus # "" THEN "status"
  ELSE IF containsJoin[req.Body] THEN "join"
  ELSE "lookup"

\* The branch the dispatcher takes, in the order of its tests.
branchOf(req) ==
  IF req.MessageStatus # "" THEN "status"
  ELSE IF containsJoin[req.Body] THEN "join"
  ELSE IF userOnboardingState[phoneOf(req)].step # "absent"
  THEN userOnboardingState[phoneOf(req)].step
  ELSE "lookup"

\* Start of the handler, up to its first await of the store (or to its end
\* when it awaits nothing but a send).
Dispatch(r, req, result) ==
  LET phone == phoneOf(req)
      onboardingState == userOnboardingState[phone]
      branch == branchOf(req)
  IN  IF branch = "status"
      THEN Return(r, IF impl = "app" THEN "none" ELSE "200")
      ELSE IF branch = "join"
      THEN [r EXCEPT !.pc = "join_lookup", !.io = Pending]
      ELSE IF branch = "name"
      THEN SendAndReturn(r, "ask_email", "none", result)
      ELSE IF branch = "email"
      THEN IF ~validEmail[req.Body]
           THEN SendAndReturn(r, "invalid_email",
                              IF impl = "app" THEN "none" ELSE "200", result)
           ELSE [r EXCEPT !.pc = "insert_user", !.io = Pending,
                          !.newUser = [id |-> 0, phone |-> phone,
                                       name |-> onboardingState.data[1],
                                       email |-> trimmed[req.Body]]]
      ELSE [r EXCEPT !.pc = "user_lookup", !.io = Pending]

\* Mutant of DispatchState: case 'name' does not move the entry on.
DispatchState_StaysAtName(req) == userOnboardingState

\* case 'name': the entry is changed before the send.
DispatchState(req) ==
  IF branchOf(req) = "name"
  THEN [userOnboardingState EXCEPT
          ![phoneOf(req)] = [step |-> "email", data |-> <<trimmed[req.Body]>>]]
  ELSE userOnboardingState

\* Does the dispatcher send a message before it awaits the store?
sendsAtDispatch(req) ==
  \/ branchOf(req) = "name"
  \/ branchOf(req) = "email" /\ ~validEmail[req.Body]

\* A delivery takes the first free slot.
FreeSlot(h) ==
  /\ handler[h].pc = "idle"
  /\ h = "h2" => handler["h1"].pc # "idle"

Receive(h, req, max) ==
  /\ FreeSlot(h)
  /\ deliveries < max
  /\ deliveries' = deliveries + 1
  /\ \E result \in IF sendsAtDispatch(req) THEN SendResults ELSE {"sent"} :
       Set(h, Dispatch([Idle EXCEPT !.req = req], req, result))
  /\ userOnboardingState' = DispatchState(req)
  /\ UNCHANGED <<impl, users, expenses, globals>>

\* The store answers .select().eq('phone', phone).single()
selectUser(p, fails) ==
  IF fails THEN [tag |-> "error", row |-> NoUser]
  ELSE IF Cardinality(usersByPhone(p)) = 1
  THEN [tag |-> "row", row |-> CHOOSE u \in usersByPhone(p) : TRUE]
  ELSE [tag |-> "PGRST116", row |-> NoUser]

DbSelectUser(h) ==
  /\ handler[h].pc \in {"join_lookup", "user_lookup", "goc_lookup"}
  /\ handler[h].io = Pending
  /\ \E fails \in BOOLEAN :
       Set(h, [handler[h] EXCEPT !.io = selectUser(phoneOf(handler[h].req), fails)])
  /\ UNCHANGED <<impl, users, expenses, userOnboardingState, globals, deliveries>>

\* Mutant of insertAccepted: the table has no unique index on phone.
insertAccepted_NoIndex(row, fails) == ~fails

\* The unique index users_phone_key rejects a second row for a phone.
insertAccepted(row, fails) == ~fails /\ usersByPhone(row.phone) = {}

DbInsertUser(h) ==
  /\ handler[h].pc \in {"insert_user", "goc_insert"}
  /\ handler[h].io = Pending
  /\ \E fails \in BOOLEAN :
       LET row == [handler[h].newUser EXCEPT !.id = freshUserId]
       IN  IF insertAccepted(row, fails)
           THEN /\ users' = users \cup {row}
                /\ Set(h, [handler[h] EXCEPT !.io = [tag |-> "row", row |-> row]])
           ELSE /\ users' = users
                /\ Set(h, [handler[h] EXCEPT !.io = [tag |-> "error", row |-> NoUser]])
  /\ UNCHANGED <<impl, expenses, userOnboardingState, globals, deliveries>>

DbInsertExpense(h) ==
  /\ handler[h].pc = "insert_expense"
  /\ handler[h].io = Pending
  /\ \E fails \in BOOLEAN :
       IF fails
       THEN /\ expenses' = expenses
            /\ Set(h, [handler[h] EXCEPT !.io = [tag |-> "error", row |-> NoUser]])
       ELSE /\ expenses' = expenses \cup {[handler[h].expense EXCEPT !.id = freshExpenseId]}
            /\ Set(h, [handler[h] EXCEPT !.io = [tag |-> "row", row |-> NoUser]])
  /\ UNCHANGED <<impl, users, userOnboardingState, globals, deliveries>>

\* app.js throws a lookup error other than PGRST116; getUserByPhone of the
\* controller turns every error into null.
lookupThrows(io) == impl = "app" /\ io.tag = "error"

\* Mutants of joinState: the entry is never created; the entry is created
\* whatever the lookup found.
joinState_NoEntry(phone, io) == userOnboardingState

joinState_Always(phone, io) ==
  IF lookupThrows(io)
  THEN userOnboardingState
  ELSE [userOnboardingState EXCEPT ![phone] = [step |-> "name", data |-> << >>]]

\* The join branch resumes after its lookup.
joinState(phone, io) ==
  IF lookupThrows(io) \/ io.tag = "row"
  THEN userOnboardingState
  ELSE [userOnboardingState EXCEPT ![phone] = [step |-> "name", data |-> << >>]]

JoinResume(h) ==
  LET r == handler[h]
  IN  /\ r.pc = "join_lookup"
      /\ r.io.tag \in {"row", "PGRST116", "error"}
      /\ userOnboardingState' = joinState(phoneOf(r.req), r.io)
      /\ \E result \in IF lookupThrows(r.io) THEN {"sent"} ELSE SendResults :
           IF lookupThrows(r.io)
           THEN Set(h, Fail(r, "db_error"))
           ELSE IF r.io.tag = "row"
           THEN Set(h, SendAndReturn(r, "welcome_back", "none", result))
           ELSE Set(h, SendAndReturn(r, "ask_name", "none", result))
      /\ UNCHANGED <<impl, users, expenses, globals, deliveries>>

\* Mutants of emailState: the entry is not deleted; the entry is deleted
\* although the insert failed.
emailState_KeepsEntry(phone, io) == userOnboardingState

emailState_DeletesOnError(phone, io) == [userOnboardingState EXCEPT ![phone] = Absent]

\* case 'email' resumes after the insert of the user.
emailState(phone, io) ==
  IF io.tag = "error"
  THEN userOnboardingState
  ELSE [userOnboardingState EXCEPT ![phone] = Absent]

EmailResume(h) ==
  LET r == handler[h]
  IN  /\ r.pc = "insert_user"
      /\ r.io.tag \in {"row", "error"}
      /\ userOnboardingState' = emailState(phoneOf(r.req), r.io)
      /\ \E result \in IF r.io.tag = "error" THEN {"sent"} ELSE SendResults :
           IF r.io.tag = "error"
           THEN Set(h, Fail(r, "db_error"))
           ELSE Set(h, SendAndReturn(r, "completed", "none", result))
      /\ UNCHANGED <<impl, users, expenses, globals, deliveries>>

\* The lookup of the sender resumes: unknown sender, receipt image, summary
\* or help.
LookupResume(h) ==
  LET r == handler[h]
      receipt == ~lookupThrows(r.io) /\ r.io.tag = "row" /\ isReceiptImage(r.req)
      summary == ~lookupThrows(r.io) /\ r.io.tag = "row" /\ ~isReceiptImage(r.req)
                   /\ containsSummary[r.req.Body]
  IN  /\ r.pc = "user_lookup"
      /\ r.io.tag \in {"row", "PGRST116", "error"}
      /\ globals' = IF receipt /\ impl = "app"
                    THEN [globals EXCEPT !.imageUrl = r.req.Media.MediaUrl0]
                    ELSE globals
      /\ \E result \in IF lookupThrows(r.io) \/ receipt \/ (summary /\ impl = "app")
                       THEN {"sent"} ELSE SendResults :
           IF lookupThrows(r.io)
           THEN Set(h, Fail(r, "db_error"))
           ELSE IF r.io.tag # "row"
           THEN Set(h, SendAndReturn(r, "prompt_join", "none", result))
           ELSE IF receipt
           THEN Set(h, [r EXCEPT !.pc = "extract", !.user = r.io.row, !.io = NoIo])
           ELSE IF summary
           THEN IF impl = "app"
                THEN Set(h, [r EXCEPT !.pc = "summary_fetch", !.user = r.io.row, !.io = NoIo])
                ELSE Set(h, SendAndReturn(r, "summary_stub", "none", result))
           ELSE Set(h, SendAndReturn(r, "help", "none", result))
      /\ UNCHANGED <<impl, users, expenses, userOnboardingState, deliveries>>

\* extractTextFromImage answers: the text of the image, an empty text when
\* nothing was detected, or an error.
ExtractText(h) ==
  /\ handler[h].pc = "extract"
  /\ handler[h].io = NoIo
  /\ \E outcome \in {"text", "empty", "throws"} :
       Set(h, [handler[h] EXCEPT !.io = Answer(outcome)])
  /\ UNCHANGED <<impl, users, expenses, userOnboardingState, globals, deliveries>>

\* Mutant of hasText: the text is parsed whatever it is.
hasText_Always(extractedText) == TRUE

\* if (extractedText) { ... }
hasText(extractedText) == extractedText # ""

\* extractedText = await extractTextFromImage(...) resumes.
ExtractResume(h) ==
  LET r == handler[h]
      extractedText == IF r.io.tag = "text" THEN TextOf(r.req.Media.MediaUrl0) ELSE ""
  IN  /\ r.pc = "extract"
      /\ r.io.tag \in {"text", "empty", "throws"}
      /\ globals' = IF impl = "app" /\ r.io.tag # "throws"
                    THEN [globals EXCEPT !.extractedText = extractedText]
                    ELSE globals
      /\ \E failedSend \in IF r.io.tag = "throws" THEN SendResults ELSE {"sent"} :
           IF r.io.tag = "throws"
           THEN Set(h, ReceiptCatch(r, "extract_error", failedSend))
           ELSE IF hasText(extractedText)
           THEN Set(h, [r EXCEPT !.pc = "parse", !.text = extractedText, !.io = NoIo])
           ELSE Set(h, Return(r, IF impl = "app" THEN "200" ELSE "none"))
      /\ UNCHANGED <<impl, users, expenses, userOnboardingState, deliveries>>

\* parsedReceipt = await parseReceiptWithAI(extractedText); then the controller
\* inserts the expense for the user it looked up, app.js calls getOrCreateUser.
Parse(h) ==
  LET r == handler[h]
  IN  /\ r.pc = "parse"
      /\ \E throws \in BOOLEAN :
           IF throws
           THEN /\ \E failedSend \in SendResults :
                     Set(h, ReceiptCatch(r, "parse_error", failedSend))
                /\ UNCHANGED globals
           ELSE LET parsedReceipt == ParsedOf(r.text)
                IN  IF impl = "app"
                    THEN /\ globals' = [globals EXCEPT !.parsedReceipt = parsedReceipt]
                         /\ Set(h, [r EXCEPT !.pc = "goc_lookup", !.io = Pending,
                                             !.parsed = parsedReceipt])
                    ELSE /\ UNCHANGED globals
                         /\ Set(h, [r EXCEPT !.pc = "insert_expense", !.io = Pending,
                                             !.parsed = parsedReceipt,
                                             !.expense = expenseRow(r.user.id,
                                                            r.req.Media.MediaUrl0,
                                                            parsedReceipt)])
      /\ UNCHANGED <<impl, users, expenses, userOnboardingState, deliveries>>

\* The image reference and parsed fields the insert of app.js reads: the
\* undeclared variables imageUrl and parsedReceipt, shared by all handlers.
insertedReceipt(r) == [imageUrl |-> globals.imageUrl, parsedReceipt |-> globals.parsedReceipt]

\* getOrCreateUser of app.js resumes, after its select or after its insert.
GetOrCreateResume(h) ==
  LET r == handler[h]
      phone == phoneOf(r.req)
      read == insertedReceipt(r)
  IN  /\ r.pc \in {"goc_lookup", "goc_insert"}
      /\ r.io.tag \in {"row", "PGRST116", "error"}
      /\ \E failedSend \in IF r.io.tag = "error" THEN SendResults ELSE {"sent"} :
           IF r.io.tag = "error"
           THEN Set(h, ReceiptCatch(r, "db_error", failedSend))
           ELSE IF r.io.tag = "row"
           THEN Set(h, [r EXCEPT !.pc = "insert_expense", !.io = Pending,
                                 !.expense = expenseRow(r.io.row.id, read.imageUrl,
                                                        read.parsedReceipt)])
           ELSE Set(h, [r EXCEPT !.pc = "goc_insert", !.io = Pending,
                                 !.newUser = [id |-> 0, phone |-> phone,
                                              name |-> N_Default, email |-> << >>]])
      /\ UNCHANGED <<impl, users, expenses, userOnboardingState, globals, deliveries>>

\* The insert of the expense resumes: the confirmation is sent inside the try
\* block, so a send that throws is caught like any failure of the pipeline.
receiptSaved(r, result, failedSend) ==
  LET q == [r EXCEPT !.sent = Append(@, "receipt_saved")]
  IN  IF result = "sent"
      THEN Return(q, IF impl = "app" THEN "200" ELSE "none")
      ELSE ReceiptCatch(q, result, failedSend)

ExpenseResume(h) ==
  LET r == handler[h]
  IN  /\ r.pc = "insert_expense"
      /\ r.io.tag \in {"row", "error"}
      /\ \E result \in IF r.io.tag = "error" THEN {"sent"} ELSE SendResults :
           \E failedSend \in IF r.io.tag = "row" /\ result = "sent"
                             THEN {"sent"} ELSE SendResults :
             IF r.io.tag = "error"
             THEN Set(h, ReceiptCatch(r, "db_error", failedSend))
             ELSE Set(h, receiptSaved(r, result, failedSend))
      /\ UNCHANGED <<impl, users, expenses, userOnboardingState, globals, deliveries>>

\* app.js: const response = await fetch(summaryUrl); throws unless response.ok.
\* The summary endpoint has sent the narrative when it answers ok.
SummaryFetch(h) ==
  LET r == handler[h]
  IN  /\ r.pc = "summary_fetch"
      /\ \E ok \in BOOLEAN :
           IF ok
           THEN Set(h, Return([r EXCEPT !.sent = Append(@, "summary")], "none"))
           ELSE Set(h, Fail(r, "summary_error"))
      /\ UNCHANGED <<impl, users, expenses, userOnboardingState, globals, deliveries>>

Next ==
  \E h \in Handlers :
    \/ \E req \in Requests : Receive(h, req, MaxDeliveries)
    \/ DbSelectUser(h)
    \/ DbInsertUser(h)
    \/ DbInsertExpense(h)
    \/ JoinResume(h)
    \/ EmailResume(h)
    \/ LookupResume(h)
    \/ ExtractText(h)
    \/ ExtractResume(h)
    \/ Parse(h)
    \/ GetOrCreateResume(h)
    \/ ExpenseResume(h)
    \/ SummaryFetch(h)

Spec == Init /\ [][Next]_vars

(***************************************************************************)
(* The same handlers under narrower traffic.  Each specification keeps     *)
(* every action its deliveries can enable.                                 *)
(***************************************************************************)

\* Onboarding traffic: text messages only.
OnboardingRequests ==
  {req \in TextRequests : req.Body \in {B_Join, B_Name, B_Email, B_NoDot, B_NoAt, B_Space}}

NextOnboarding ==
  \E h \in Handlers :
    \/ \E req \in OnboardingRequests : Receive(h, req, MaxOnboardingDeliveries)
    \/ DbSelectUser(h)
    \/ DbInsertUser(h)
    \/ JoinResume(h)
    \/ EmailResume(h)
    \/ LookupResume(h)

SpecOnboarding == Init /\ [][NextOnboarding]_vars

\* Receipt traffic: media messages, commands, "join" and status callbacks, but
\* no valid email, so that no user is inserted.
ReceiptRequests ==
  {req \in TextRequests : req.Body \in {B_Join, B_Name, B_Summary}}
    \cup MediaRequests \cup StatusRequests

NextReceipts ==
  \E h \in Handlers :
    \/ \E req \in ReceiptRequests : Receive(h, req, MaxReceiptDeliveries)
    \/ DbSelectUser(h)
    \/ DbInsertExpense(h)
    \/ JoinResume(h)
    \/ LookupResume(h)
    \/ ExtractText(h)
    \/ ExtractResume(h)
    \/ Parse(h)
    \/ GetOrCreateResume(h)
    \/ ExpenseResume(h)
    \/ SummaryFetch(h)

SpecReceipts == Init /\ [][NextReceipts]_vars

\* One phone that joins, answers and joins again.
RaceRequests ==
  {req \in TextRequests : phoneOf(req) = "+1" /\ req.Body \in {B_Join, B_Name, B_Email}}

NextRace ==
  \E h \in Handlers :
    \/ \E req \in RaceRequests : Receive(h, req, MaxRaceDeliveries)
    \/ DbSelectUser(h)
    \/ DbInsertUser(h)
    \/ JoinResume(h)
    \/ EmailResume(h)
    \/ LookupResume(h)

SpecRace == Init /\ [][NextRace]_vars

(***************************************************************************)
(* sendWhatsAppMessage followed attempt by attempt.  The operator of the   *)
(* same name above gives the result of a whole call; here every await of   *)
(* the function is a step: the gateway answers messages.create, and the    *)
(* timer of the retry delay fires.                                         *)
(***************************************************************************)
\* The messages the bot sends.
Messages ==
  {"ask_name", "welcome_back", "ask_email", "invalid_email", "completed", "prompt_join",
   "receipt_saved", "receipt_failed", "summary_stub", "help", "summary", "no_expenses"}

\* error.code of the rate limit, and the delay before a retry in milliseconds.
RateLimitCode == 63038
RetryDelayMs == 1000

\* Codes of the errors messages.create throws: the rate limit and another
\* error (21211, an invalid number).
ErrorCodes == {RateLimitCode, 21211}

\* Mutants of mayRetry: the rate limit is retried without end; every error
\* is retried.
mayRetry_Unbounded(code, retries) == code = RateLimitCode

mayRetry_AnyError(code, retries) == retries > 0

\* if (error.code === 63038 && retries > 0)
mayRetry(code, retries) == code = RateLimitCode /\ retries > 0

\* A caller calls sendWhatsAppMessage(to, body): retries takes its default.
SendCall(to, body) ==
  /\ sender.pc = "idle"
  /\ deliveries = 0
  /\ sender' = [SenderIdle EXCEPT !.pc = "create", !.to = to, !.body = body,
                                  !.retries = DefaultRetries]
  /\ UNCHANGED <<impl, users, expenses, userOnboardingState, globals, handler, finished,
                 deliveries, api>>

\* await twilioClient.messages.create(...) settles: the message is returned,
\* or the error is caught and, for the rate limit with retries left, the delay
\* is awaited; any other error is thrown to the caller.
CreateSettles ==
  /\ sender.pc = "create"
  /\ \E code \in ErrorCodes \cup {0} :
       LET r == [sender EXCEPT !.attempts = @ + 1, !.error = code]
       IN  sender' = IF code = 0 THEN [r EXCEPT !.pc = "returned"]
                     ELSE IF mayRetry(code, r.retries) THEN [r EXCEPT !.pc = "delay"]
                     ELSE [r EXCEPT !.pc = "thrown"]
  /\ UNCHANGED <<impl, users, expenses, userOnboardingState, globals, handler, finished,
                 deliveries, api>>

\* The timer fires: return sendWhatsAppMessage(to, body, retries - 1)
DelayElapses ==
  /\ sender.pc = "delay"
  /\ sender' = [sender EXCEPT !.pc = "create", !.retries = @ - 1,
                              !.delays = @ + RetryDelayMs, !.error = 0]
  /\ UNCHANGED <<impl, users, expenses, userOnboardingState, globals, handler, finished,
                 deliveries, api>>

\* The caller's await ends with the message or the error.
SendSettles ==
  /\ sender.pc \in {"returned", "thrown"}
  /\ sender' = SenderIdle
  /\ UNCHANGED <<impl, users, expenses, userOnboardingState, globals, handler, finished,
                 deliveries, api>>

\* One phone, every kind of delivery: the sender is called on its own before
\* the traffic arrives.
OnePhoneRequests ==
  {req \in TextRequests \cup MediaRequests :
     /\ phoneOf(req) = "+1"
     /\ req.Body \in {B_Join, B_Name, B_Email, B_NoDot, B_Summary, B_Empty}}
    \cup StatusRequests

NextOnePhone ==
  \/ \E to \in Phones, body \in Messages : SendCall(to, body)
  \/ CreateSettles
  \/ DelayElapses
  \/ SendSettles
  \/ \E h \in Handlers :
       \/ \E req \in OnePhoneRequests :
            sender.pc = "idle" /\ Receive(h, req, MaxOnePhoneDeliveries)
       \/ DbSelectUser(h)
       \/ DbInsertUser(h)
       \/ DbInsertExpense(h)
       \/ JoinResume(h)
       \/ EmailResume(h)
       \/ LookupResume(h)
       \/ ExtractText(h)
       \/ ExtractResume(h)
       \/ Parse(h)
       \/ GetOrCreateResume(h)
       \/ ExpenseResume(h)
       \/ SummaryFetch(h)

\* The gateway answers every attempt and every timer fires.
SpecOnePhone ==
  Init /\ [][NextOnePhone]_vars /\ WF_vars(CreateSettles \/ DelayElapses \/ SendSettles)

(***************************************************************************)
(* The REST routes: GET /api/user/:phone/expenses (app.js and the          *)
(* controller) and GET /summary/:phone (app.js).  Instants are counted in  *)
(* half days from January 1, 00:00, of year 0, in a calendar whose months  *)
(* all have the same number of days.                                       *)
(***************************************************************************)
TicksPerDay == 2
DaysPerMonth == 30
MonthsPerYear == 12

Instant(year, month, day, tick) ==
  ((year * MonthsPerYear + (month - 1)) * DaysPerMonth + (day - 1)) * TicksPerDay + tick

\* Date.prototype.getDate, and the month of the year counted from 0.
getDate(t) == ((t \div TicksPerDay) % DaysPerMonth) + 1
getMonth(t) == (t \div (TicksPerDay * DaysPerMonth)) % MonthsPerYear

\* setDate(d) and setMonth(0, 1): the day changes, the time of day stays.
setDate(t, d) == t + (d - getDate(t)) * TicksPerDay
setMonth01(t) == setDate(t, 1) - getMonth(t) * DaysPerMonth * TicksPerDay

Periods == {"week", "month", "ytd"}

\* const startDate = new Date(); switch (period) { ... }
startDateOf(period, now) ==
  IF period = "week" THEN setDate(now, getDate(now) - 7)
  ELSE IF period = "month" THEN setDate(now, 1)
  ELSE setMonth01(now)

\* The times the summary is asked for: May 15 at 00:00 and at 12:00, and
\* May 3 at 12:00, of year 1.
Nows == {Instant(1, 5, 15, 0), Instant(1, 5, 15, 1), Instant(1, 5, 3, 1)}

\* The expenses the store may hold.  Receipts are dated by day (00:00).
Expense(id, userId, category, amount, date) ==
  [NoExpense EXCEPT !.id = id, !.user_id = userId, !.category = category,
                    !.amount = amount, !.date = date, !.status = "pending"]

ExpensePool ==
  {Expense(1, 1, "Food", 1, Instant(1, 5, 15, 0)),
   Expense(2, 1, "Travel", 1, Instant(1, 5, 1, 0)),
   Expense(3, 1, "Fuel", 4, Instant(1, 1, 1, 0)),
   Expense(4, 1, "", 2, Instant(1, 5, 8, 0)),
   Expense(5, 1, "Food", 0, Instant(1, 5, 14, 1)),
   Expense(6, 2, "Food", 5, Instant(1, 5, 15, 0)),
   Expense(7, 1, "Food", 3, Instant(0, 12, 20, 0))}

\* The phones and periods of the requests: a number no user has, a number
\* without "+", and a period that is none of the three.
ApiPhones == Phones \cup {"+3", "1"}

\* The characters of the path parameter, and '+'.
charsOf == ("+1" :> <<"+", "1">>) @@ ("+2" :> <<"+", "2">>) @@ ("+3" :> <<"+", "3">>)
             @@ ("1" :> <<"1">>)
S_plus == <<"+">>
ApiPeriods == Periods \cup {"day"}

InitApi ==
  /\ impl \in {"app", "controller"}
  /\ users \in {{SeedUser(p) : p \in R} : R \in SUBSET Phones}
  /\ expenses \in SUBSET ExpensePool
  /\ userOnboardingState = [p \in Phones |-> Absent]
  /\ globals = NoGlobals
  /\ handler = [h \in Handlers |-> Idle]
  /\ finished = NoFinished
  /\ deliveries = 0
  /\ sender = SenderIdle
  /\ api = ApiIdle

ApiUnchanged ==
  UNCHANGED <<impl, users, expenses, userOnboardingState, globals, handler, finished,
              deliveries, sender>>

ApiFree == api.pc \in {"idle", "done"}

\* res.status(status).json(...) or res.json(...)
Respond(r, status) == [r EXCEPT !.pc = "done", !.resp = status, !.io = NoIo]

\* .order('date', { ascending: false }).  The store does not say how rows of
\* the same date are ordered.
RECURSIVE orderByDateDesc(_)
orderByDateDesc(S) ==
  IF S = {} THEN << >>
  ELSE LET e == CHOOSE x \in S : \A y \in S : y.date <= x.date
       IN  <<e>> \o orderByDateDesc(S \ {e})

\* GET /api/user/:phone/expenses
ListRequest(phone) ==
  /\ ApiFree
  /\ api' = [ApiIdle EXCEPT !.pc = "select_user", !.route = "expenses", !.phone = phone,
                            !.io = Pending]
  /\ ApiUnchanged

\* GET /summary/:phone?period=...: the validations before the first await.
SummaryRequest(phone, period, now) ==
  /\ ApiFree
  /\ impl = "app"
  /\ LET r == [ApiIdle EXCEPT !.route = "summary", !.phone = phone, !.period = period,
                              !.now = now]
     IN  api' = IF ~startsWith(charsOf[phone], S_plus) \/ period \notin Periods
                THEN Respond(r, "400")
                ELSE [r EXCEPT !.pc = "select_user", !.io = Pending]
  /\ ApiUnchanged

\* The store answers from('users').select('id').eq('phone', phone).single()
ApiSelectUser ==
  /\ api.pc = "select_user"
  /\ api.io = Pending
  /\ \E fails \in BOOLEAN : api' = [api EXCEPT !.io = selectUser(api.phone, fails)]
  /\ ApiUnchanged

\* The listing resumes after the lookup: app.js throws every error, no row
\* found included; getUserByPhone of the controller gives null.
ListUserResume ==
  /\ api.pc = "select_user"
  /\ api.route = "expenses"
  /\ api.io # Pending
  /\ LET r == [api EXCEPT !.lookup = api.io.tag]
     IN  api' = IF api.io.tag = "row"
                THEN [r EXCEPT !.pc = "select_expenses", !.user = api.io.row, !.io = Pending]
                ELSE Respond(r, IF impl = "app" THEN "500" ELSE "404")
  /\ ApiUnchanged

\* if (userError || !user) return res.status(404); then the window.
SummaryUserResume ==
  /\ api.pc = "select_user"
  /\ api.route = "summary"
  /\ api.io # Pending
  /\ LET r == [api EXCEPT !.lookup = api.io.tag]
     IN  api' = IF api.io.tag = "row"
                THEN [r EXCEPT !.pc = "select_expenses", !.user = api.io.row, !.io = Pending,
                               !.startDate = startDateOf(api.period, api.now)]
                ELSE Respond(r, "404")
  /\ ApiUnchanged

\* .eq('user_id', user.id) and, for the summary, .gte('date', startDate)
selected(r) ==
  {e \in expenses : /\ e.user_id = r.user.id
                    /\ r.route = "summary" => e.date >= r.startDate}

\* The store answers the select of the expenses.
ApiSelectExpenses ==
  /\ api.pc = "select_expenses"
  /\ api.io = Pending
  /\ \E fails \in BOOLEAN :
       api' = IF fails THEN [api EXCEPT !.io = Answer("error")]
              ELSE [api EXCEPT !.io = Answer("rows"),
                               !.rows = orderByDateDesc(selected(api))]
  /\ ApiUnchanged

\* if (expensesError) throw expensesError; res.json(expenses)
ListExpensesResume ==
  /\ api.pc = "select_expenses"
  /\ api.route = "expenses"
  /\ api.io # Pending
  /\ api' = Respond(api, IF api.io.tag = "error" THEN "500" ELSE "200")
  /\ ApiUnchanged

\* Mutant of categoryOf: an empty category is a bucket of its own.
categoryOf_NoFold(expense) == expense.category

\* const category = expense.category || 'Uncategorized'
categoryOf(expense) == IF expense.category = "" THEN "Uncategorized" ELSE expense.category

\* expenses.reduce((acc, expense) => { acc[category] = (acc[category] || 0)
\* + expense.amount; return acc; }, {})
RECURSIVE categoryTotals(_, _)
categoryTotals(rows, acc) ==
  IF rows = << >> THEN acc
  ELSE LET category == categoryOf(Head(rows))
           old == IF category \in DOMAIN acc THEN acc[category] ELSE 0
           new == [c \in DOMAIN acc \cup {category} |->
                     IF c = category THEN old + Head(rows).amount ELSE acc[c]]
       IN  categoryTotals(Tail(rows), new)

\* expenses.reduce((sum, expense) => sum + expense.amount, 0)
RECURSIVE totalOf(_, _)
totalOf(rows, sum) ==
  IF rows = << >> THEN sum ELSE totalOf(Tail(rows), sum + Head(rows).amount)

\* ((amount / totalSpend) * 100).toFixed(1), in tenths of a percent; the
\* division by 0 gives NaN or Infinity, which is no number of tenths.
percentage(amount, totalSpend) ==
  IF totalSpend = 0
  THEN [finite |-> FALSE, tenths |-> 0]
  ELSE [finite |-> TRUE, tenths |-> (2000 * amount + totalSpend) \div (2 * totalSpend)]

\* Object.entries(categoryBreakdown).sort(([,a], [,b]) => b - a).slice(0, 3)
RECURSIVE top(_, _, _)
top(n, breakdown, cats) ==
  IF n = 0 \/ cats = {} THEN << >>
  ELSE LET c == CHOOSE x \in cats : \A y \in cats : breakdown[y] <= breakdown[x]
       IN  <<c>> \o top(n - 1, breakdown, cats \ {c})

percentageTable(breakdown, totalSpend) ==
  LET cats == top(3, breakdown, DOMAIN breakdown)
  IN  [i \in 1..Len(cats) |->
         [category |-> cats[i], amount |-> breakdown[cats[i]],
          percentage |-> percentage(breakdown[cats[i]], totalSpend)]]

\* Mutant of noExpenses: the early return is never taken.
noExpenses_Never(rows) == FALSE

\* if (!expenses || expenses.length === 0)
noExpenses(rows) == Len(rows) = 0

\* The summary resumes after the select: an error is thrown to the catch; with
\* no expense the canned text is sent and returned; else the totals and the
\* table of the prompt are computed and the generative service is called.
SummaryExpensesResume ==
  /\ api.pc = "select_expenses"
  /\ api.route = "summary"
  /\ api.io # Pending
  /\ \E result \in IF api.io.tag = "rows" /\ noExpenses(api.rows)
                    THEN SendResults ELSE {"sent"} :
       api' = IF api.io.tag = "error" THEN Respond(api, "500")
              ELSE IF noExpenses(api.rows)
              THEN Respond([api EXCEPT !.summary = "no_expenses",
                                       !.sent = Append(@, "no_expenses")],
                           IF result = "sent" THEN "200" ELSE "500")
              ELSE LET breakdown == categoryTotals(api.rows, NoBreakdown)
                       totalSpend == totalOf(api.rows, 0)
                   IN  [api EXCEPT !.pc = "generate", !.io = NoIo,
                                   !.totalSpend = totalSpend,
                                   !.categoryBreakdown = breakdown,
                                   !.table = percentageTable(breakdown, totalSpend)]
  /\ ApiUnchanged

\* await openai.chat.completions.create(...) answers or throws; the narrative
\* is sent and the response given.
SummaryGenerate ==
  /\ api.pc = "generate"
  /\ \E throws \in BOOLEAN :
       \E result \in IF throws THEN {"sent"} ELSE SendResults :
         api' = IF throws THEN Respond([api EXCEPT !.generated = TRUE], "500")
                ELSE Respond([api EXCEPT !.generated = TRUE, !.summary = "summary",
                                         !.sent = Append(@, "summary")],
                             IF result = "sent" THEN "200" ELSE "500")
  /\ ApiUnchanged

NextApi ==
  \/ \E phone \in ApiPhones : ListRequest(phone)
  \/ \E phone \in ApiPhones, period \in ApiPeriods, now \in Nows :
       SummaryRequest(phone, period, now)
  \/ ApiSelectUser
  \/ ListUserResume
  \/ SummaryUserResume
  \/ ApiSelectExpenses
  \/ ListExpensesResume
  \/ SummaryExpensesResume
  \/ SummaryGenerate

SpecApi == InitApi /\ [][NextApi]_vars

(***************************************************************************)
(* Claims                                                                  *)
(***************************************************************************)
NameStep == [step |-> "name", data |-> << >>]

E_Name  == <<"A","l">>
E_Email == <<"a","@","b",".","c","o">>

\* Handler h took this step.
Stepped(h) == handler'[h] # handler[h]

\* This step is the delivery of req.
Received(req) ==
  /\ deliveries' = deliveries + 1
  /\ \/ finished'.req = req
     \/ \E h \in Handlers : handler[h].pc = "idle" /\ handler'[h].req = req

\* Handler h is handling a message whose text contains "join".
HandlesJoin(h) ==
  /\ handler[h].pc # "idle"
  /\ handler[h].req.MessageStatus = ""
  /\ handler[h].req.Body \in {B_Join}

\* C1: while a phone has no user and no onboarding entry, no step of a handler
\* of its "join" message inserts a user, and the step in which the handler
\* resumes after its lookup leaves the phone with an entry at the first step
\* (awaiting_name, nothing collected); the one exception is app.js answering
\* 500 when the lookup itself failed in the store.
C1_JoinStartsOnboarding ==
  [][\A h \in Handlers :
       LET r == handler[h]
           p == phoneOf(r.req)
       IN  (HandlesJoin(h) /\ Stepped(h) /\ usersByPhone(p) = {}
              /\ userOnboardingState[p] = Absent)
           => /\ users' = users
              /\ r.io = Pending => userOnboardingState' = userOnboardingState
              /\ r.io # Pending =>
                   \/ userOnboardingState'[p] = NameStep
                   \/ /\ r.io.tag = "error"
                      /\ impl = "app"
                      /\ finished'.resp = "500"
                      /\ userOnboardingState' = userOnboardingState]_vars

C1_Witness ==
  /\ deliveries = 1
  /\ finished.req.Body = B_Join
  /\ finished.sent = <<"ask_name">>
  /\ userOnboardingState[phoneOf(finished.req)] = NameStep
  /\ usersByPhone(phoneOf(finished.req)) = {}

\* C2: when a phone is at awaiting_email and a message arrives that reaches
\* the onboarding branch (it does not contain "join") and whose trimmed body
\* has no "@", no dot in the domain part or embedded whitespace, the handler
\* sends the re-prompt and nothing else, the entry stays at awaiting_email
\* with the collected name, and no user is persisted.
C2_BadShapes == {B_NoDot, B_NoAt, B_Space}

C2_InvalidEmailRetained ==
  [][\A req \in TextRequests :
       LET p == phoneOf(req)
       IN  (Received(req) /\ userOnboardingState[p].step = "email"
              /\ req.Body \in C2_BadShapes)
           => /\ finished'.req = req
              /\ finished'.sent = <<"invalid_email">>
              /\ userOnboardingState'[p] = userOnboardingState[p]
              /\ users' = users
              /\ \A h \in Handlers : handler'[h] = handler[h]]_vars

C2_Witness ==
  /\ finished.req.Body = B_Space
  /\ finished.sent = <<"invalid_email">>
  /\ userOnboardingState[phoneOf(finished.req)] = [step |-> "email", data |-> <<E_Name>>]
  /\ usersByPhone(phoneOf(finished.req)) = {}

\* C3: when a phone is at awaiting_email and a valid-shaped email arrives, the
\* handler asks the store for one insert of a user with the sender's phone,
\* the name collected at awaiting_name and the trimmed email; the store adds
\* exactly that one row unless it rejects the insert; and once the row is
\* returned the handler deletes the phone's entry and sends the completion
\* message.
C3_ValidEmailRegisters ==
  [][/\ \A req \in TextRequests :
          LET p == phoneOf(req)
          IN  (Received(req) /\ userOnboardingState[p].step = "email"
                 /\ req.Body = B_Email)
              => /\ users' = users
                 /\ \E h \in Handlers :
                      /\ handler'[h].pc = "insert_user"
                      /\ handler'[h].io = Pending
                      /\ handler'[h].req = req
                      /\ handler'[h].newUser.phone = p
                      /\ handler'[h].newUser.name = userOnboardingState[p].data[1]
                      /\ handler'[h].newUser.email = E_Email
     /\ \A h \in Handlers :
          LET r == handler[h]
              p == phoneOf(r.req)
          IN  (r.pc = "insert_user" /\ Stepped(h))
              => IF r.io = Pending
                 THEN \/ users' = users /\ handler'[h].io.tag = "error"
                      \/ /\ handler'[h].io.tag = "row"
                         /\ handler'[h].io.row \notin users
                         /\ users' = users \cup {handler'[h].io.row}
                         /\ [handler'[h].io.row EXCEPT !.id = 0] = r.newUser
                 ELSE /\ users' = users
                      /\ r.io.tag = "row" =>
                           /\ userOnboardingState'[p] = Absent
                           /\ finished'.req = r.req
                           /\ finished'.sent = <<"completed">>]_vars

C3_Witness ==
  /\ finished.req.Body = B_Email
  /\ finished.sent = <<"completed">>
  /\ userOnboardingState[phoneOf(finished.req)] = Absent
  /\ \E u \in users :
       /\ u.phone = phoneOf(finished.req)
       /\ u.name = E_Name
       /\ u.email = E_Email
  /\ Cardinality(usersByPhone(phoneOf(finished.req))) = 1

\* C4: for a phone that has a persisted user when its "join" message is
\* delivered, every step of the handler leaves the user table and the
\* onboarding map unchanged, and the handler that found the user sends the
\* welcome-back message and nothing else, at every delivery.
C4_JoinWhenRegistered ==
  [][\A h \in Handlers :
       LET r == handler[h]
           p == phoneOf(r.req)
       IN  (HandlesJoin(h) /\ Stepped(h) /\ usersByPhone(p) # {}
              /\ r.io.tag \in {"pending", "row"})
           => /\ users' = users
              /\ userOnboardingState' = userOnboardingState
              /\ r.io.tag = "row" =>
                   /\ finished'.req = r.req
                   /\ finished'.sent = <<"welcome_back">>]_vars

C4_Witness ==
  /\ deliveries = 3
  /\ finished.req.Body = B_Join
  /\ finished.sent = <<"welcome_back">>
  /\ usersByPhone(phoneOf(finished.req)) # {}
  /\ \A p \in Phones : userOnboardingState[p] = Absent
  /\ users \in {{SeedUser(p) : p \in R} : R \in SUBSET Phones}

Quiet == \A h \in Handlers : handler[h].pc = "idle"

Registered(p) == usersByPhone(p) # {}

Onboarding(p) == userOnboardingState[p] # Absent

\* C5: two handlers of the same phone leave the state some serial order of
\* them leaves; in particular, once no handler is in flight, no phone has
\* both a persisted user and an onboarding entry.  (Stated for app.js, whose
\* join branch creates an entry only when the store reported no user, so
\* that only an interleaving of two handlers can break it.)
C5_QuietStateIsSerial ==
  (impl = "app" /\ Quiet) => \A p \in Phones : ~(Registered(p) /\ Onboarding(p))

\* C6: the user table never holds two users with the same phone number.
C6_OneUserPerPhone == \A p \in Phones : Cardinality(usersByPhone(p)) <= 1

\* The same valid email delivered twice: an insert is waiting at the store
\* while the phone already has its user.
C6_Witness ==
  \E h \in Handlers :
    /\ handler[h].pc = "insert_user"
    /\ handler[h].io = Pending
    /\ handler[h].req.Body = B_Email
    /\ Cardinality(usersByPhone(phoneOf(handler[h].req))) = 1

\* C7: every delivery ends with an HTTP response: 200 when the handler threw
\* nothing to its outer catch, 500 when it did.
C7_EveryDeliveryAnswered ==
  finished.req # NoReq =>
    IF finished.err = "" THEN finished.resp = "200" ELSE finished.resp = "500"

C9_ReceiptFailureNotSurfaced ==
  finished.caught \in {"extract_error", "parse_error", "db_error"} =>
    /\ \E i \in 1..Len(finished.sent) : finished.sent[i] = "receipt_failed"
    /\ finished.resp # "500"

\* C10: every expense row the receipt pipeline persists has status "pending",
\* the id of the sender's own user, and the image URL and parsed fields of the
\* message its handler is handling.
C10_ExpenseOfOwnReceipt ==
  [][\A h \in Handlers :
       LET r == handler[h]
       IN  (r.pc = "insert_expense" /\ r.io = Pending /\ Stepped(h)
              /\ expenses' # expenses)
           => \E e \in expenses' \ expenses :
                /\ e.status = "pending"
                /\ \E u \in usersByPhone(phoneOf(r.req)) : e.user_id = u.id
                /\ e.image_url = r.req.Media.MediaUrl0
                /\ e.image_url = ImageUrl(phoneOf(r.req))
                /\ [merchant |-> e.merchant, amount |-> e.amount, date |-> e.date,
                    category |-> e.category, currency |-> e.currency,
                    language |-> e.language] = r.parsed]_vars

\* The retries a call in progress has made.
RetriesMade == DefaultRetries - sender.retries

\* C11: sendWhatsAppMessage always terminates.  When every attempt hits the
\* rate limit (code 63038) it makes at most 1 initial attempt and 3 retries,
\* each retry after the fixed delay, and then throws the rate-limit error to
\* its caller; it returns as soon as one attempt succeeds.
C11_SendTerminates ==
  /\ [](sender.pc # "idle" =>
          /\ sender.attempts <= 1 + DefaultRetries
          /\ sender.retries \in 0..DefaultRetries
          /\ sender.delays = RetryDelayMs * RetriesMade
          /\ sender.attempts = RetriesMade + (IF sender.pc = "create" THEN 0 ELSE 1)
          /\ (sender.pc = "thrown" /\ sender.error = RateLimitCode) =>
               sender.attempts = 1 + DefaultRetries
          /\ sender.pc = "returned" => sender.error = 0)
  /\ [][sender.pc \in {"returned", "thrown"} => sender' = SenderIdle]_vars
  /\ (sender.pc = "create") ~> (sender.pc \in {"returned", "thrown"})

C11_Witness ==
  /\ sender.pc = "thrown"
  /\ sender.error = RateLimitCode
  /\ sender.attempts = 1 + DefaultRetries
  /\ sender.delays = DefaultRetries * RetryDelayMs

\* C12: a send attempt that fails with an error other than the rate limit is
\* thrown to the caller at once, whatever retries are left, and only the rate
\* limit is ever waited on; within one delivery no external call (user
\* lookup, user insert, extraction, parsing, expense insert, summary) is made
\* again after it failed: the handler ends in the step that sees the failure.
C12_OnlyRateLimitRetried ==
  /\ [](sender.pc = "delay" => sender.error = RateLimitCode)
  /\ [][(sender.pc = "create" /\ sender'.error \notin {0, RateLimitCode})
          => /\ sender'.pc = "thrown"
             /\ sender'.attempts = sender.attempts + 1
             /\ sender'.retries = sender.retries]_vars
  /\ [][\A h \in Handlers :
          /\ (handler[h].io.tag \in {"error", "throws"} /\ Stepped(h))
               => handler'[h].pc = "idle"
          /\ (handler[h].pc \in {"parse", "summary_fetch"} /\ Stepped(h))
               => handler'[h].pc # handler[h].pc
          /\ (handler[h].pc # "idle" /\ Stepped(h) /\ finished'.req # NoReq
                /\ (finished'.err # "" \/ finished'.caught # ""))
               => handler'[h].pc = "idle"]_vars

C12_Witness ==
  /\ sender.pc = "thrown"
  /\ sender.error = 21211
  /\ sender.retries = 2
  /\ sender.attempts = 2

\* C13: dispatch is first match wins in the order status update, "join",
\* onboarding entry, user lookup.  A status update changes nothing and sends
\* nothing.  A message containing "join" from an unregistered phone that has
\* an entry at any step is not consumed as a name or an email (its delivery
\* leaves the entry and the users alone and only looks the phone up), and
\* when the lookup finds no user the entry is overwritten to awaiting_name
\* with no collected fields and the prompt for the name is the one message
\* of the delivery.
C13_JoinBeforeOnboarding ==
  [][/\ \A req \in Requests :
          (Received(req) /\ req.MessageStatus # "")
            => /\ UNCHANGED <<users, expenses, userOnboardingState>>
               /\ finished'.req = req
               /\ finished'.sent = << >>
     /\ \A req \in Requests :
          (Received(req) /\ req.MessageStatus = "" /\ req.Body = B_Join
             /\ Onboarding(phoneOf(req)))
            => /\ UNCHANGED <<users, expenses, userOnboardingState>>
               /\ \E h \in Handlers :
                    /\ handler[h].pc = "idle"
                    /\ handler'[h].pc = "join_lookup"
                    /\ handler'[h].sent = << >>
     /\ \A h \in Handlers :
          LET r == handler[h]
              p == phoneOf(r.req)
          IN  (HandlesJoin(h) /\ r.pc = "join_lookup" /\ r.io # Pending /\ Stepped(h)
                 /\ ~Registered(p) /\ Onboarding(p))
              => /\ users' = users
                 /\ \/ /\ userOnboardingState'[p] = NameStep
                       /\ finished'.sent = <<"ask_name">>
                    \/ /\ r.io.tag = "error"
                       /\ impl = "app"
                       /\ finished'.resp = "500"
                       /\ finished'.sent = << >>
                       /\ userOnboardingState' = userOnboardingState]_vars

\* A "join" dispatched while the entry holds a collected name: the entry has
\* not been consumed and the lookup found no user.
C13_Witness ==
  \E h \in Handlers :
    LET p == phoneOf(handler[h].req)
    IN  /\ HandlesJoin(h)
        /\ handler[h].pc = "join_lookup"
        /\ handler[h].io.tag = "PGRST116"
        /\ ~Registered(p)
        /\ userOnboardingState[p] = [step |-> "email", data |-> <<E_Name>>]

\* The summary whose expenses the store has returned.
SummaryFetched ==
  /\ api.route = "summary"
  /\ \/ api.pc = "generate"
     \/ api.pc = "done" /\ api.resp = "200"

\* The window start as specified: 7 days before now, the first day of the
\* current month, January 1 of the current year.
midnight(t) == t - (t % TicksPerDay)

windowStart(period, now) ==
  IF period = "week" THEN now - 7 * TicksPerDay
  ELSE IF period = "month" THEN midnight(setDate(now, 1))
  ELSE midnight(setMonth01(now))

inWindow(userId, period, now) ==
  {e \in expenses : e.user_id = userId /\ e.date >= windowStart(period, now)}

rowsOf(r) == {r.rows[i] : i \in 1..Len(r.rows)}

\* C14: an expense of the user is included in the summary iff its date is on
\* or after the window start (7 days before now, the first day of the current
\* month, January 1 of the current year); an expense dated on the first day
\* of the month, or on January 1, is included at any time of day.
C14_WindowFromDayStart ==
  SummaryFetched => rowsOf(api) = inWindow(api.user.id, api.period, api.now)

RECURSIVE SumAmounts(_)
SumAmounts(S) ==
  IF S = {} THEN 0
  ELSE LET e == CHOOSE x \in S : TRUE IN e.amount + SumAmounts(S \ {e})

RECURSIVE SumValues(_, _)
SumValues(f, D) ==
  IF D = {} THEN 0
  ELSE LET c == CHOOSE x \in D : TRUE IN f[c] + SumValues(f, D \ {c})

bucketOf(e) == IF e.category = "" THEN "Uncategorized" ELSE e.category

\* C15: for a non-empty set of expenses in the window, the values of
\* categoryBreakdown sum to totalSpend, every expense is counted in exactly
\* one bucket (each bucket is the sum of the expenses of its category), and
\* an expense with an empty category is counted under "Uncategorized".
C15_BreakdownSumsToTotal ==
  (api.route = "summary" /\ api.pc = "generate") =>
    /\ rowsOf(api) # {}
    /\ api.totalSpend = SumAmounts(rowsOf(api))
    /\ SumValues(api.categoryBreakdown, DOMAIN api.categoryBreakdown) = api.totalSpend
    /\ DOMAIN api.categoryBreakdown = {bucketOf(e) : e \in rowsOf(api)}
    /\ \A c \in DOMAIN api.categoryBreakdown :
         api.categoryBreakdown[c] = SumAmounts({e \in rowsOf(api) : bucketOf(e) = c})

\* Three buckets, one of them "Uncategorized", one holding two expenses.
C15_Witness ==
  /\ api.route = "summary"
  /\ api.pc = "generate"
  /\ \E e \in rowsOf(api) : e.category = ""
  /\ "Uncategorized" \in DOMAIN api.categoryBreakdown
  /\ Cardinality(DOMAIN api.categoryBreakdown) >= 3
  /\ \E e1, e2 \in rowsOf(api) : e1 # e2 /\ e1.category = e2.category

RECURSIVE SumTenths(_)
SumTenths(table) ==
  IF table = << >> THEN 0 ELSE Head(table).percentage.tenths + SumTenths(Tail(table))

\* C16: for a non-empty set of expenses the percentages of the top three
\* categories, each rounded to one decimal, sum to at most 100, and the
\* computation never divides by a total of 0.
C16_PercentagesWithinHundred ==
  (api.route = "summary" /\ api.pc = "generate") =>
    /\ api.totalSpend # 0
    /\ \A i \in 1..Len(api.table) : api.table[i].percentage.finite
    /\ SumTenths(api.table) <= 1000

\* C17: when the user has no expense in the requested window, the summary has
\* totalSpend 0, an empty categoryBreakdown and the canned narrative, sends
\* that narrative as its one message and never calls the generative service;
\* it answers 200 (500 when the send threw).
C17_EmptySummaryIsCanned ==
  [][(/\ api.route = "summary"
      /\ api.pc = "select_expenses"
      /\ api.io.tag = "rows"
      /\ inWindow(api.user.id, api.period, api.now) = {})
     => /\ api'.pc = "done"
        /\ api'.resp \in {"200", "500"}
        /\ api'.totalSpend = 0
        /\ api'.categoryBreakdown = NoBreakdown
        /\ api'.summary = "no_expenses"
        /\ api'.sent = <<"no_expenses">>
        /\ ~api'.generated]_vars

\* A registered user whose expenses are all older than the window.
C17_Witness ==
  /\ api.route = "summary"
  /\ api.pc = "done"
  /\ api.resp = "200"
  /\ api.sent = <<"no_expenses">>
  /\ ~api.generated
  /\ inWindow(api.user.id, api.period, api.now) = {}
  /\ \E e \in expenses : e.user_id = api.user.id

\* C18: the expense listing answers 404 for a phone that has no user, never
\* 500 for such a phone, and answers with the expenses of the user ordered by
\* date descending otherwise (the store answering its queries).
C18_ListingOfUnknownPhoneIs404 ==
  (api.route = "expenses" /\ api.pc = "done" /\ api.lookup # "error") =>
    /\ ~Registered(api.phone) => api.resp = "404"
    /\ (Registered(api.phone) /\ api.resp = "200") =>
         /\ rowsOf(api) = {e \in expenses : \E u \in usersByPhone(api.phone) : e.user_id = u.id}
         /\ \A i, j \in 1..Len(api.rows) : i < j => api.rows[i].date >= api.rows[j].date

\* The generic failure messages of the bot.
Apologies == {"receipt_failed"}

\* C19: when the insert of the user fails at the awaiting_email step, or the
\* summary fails for a "summary" command, the failure is caught and the
\* sender is sent a generic apology; the error is not thrown on.
C19_FailureGetsApology ==
  [][\A h \in Handlers :
       LET r == handler[h]
       IN  (Stepped(h) /\ \/ r.pc = "insert_user" /\ r.io.tag = "error"
                          \/ r.pc = "summary_fetch" /\ finished'.err = "summary_error")
           => /\ finished'.req = r.req
              /\ \E i \in 1..Len(finished'.sent) : finished'.sent[i] \in Apologies
              /\ finished'.resp # "500"]_vars

\* C20: an onboarding entry is created (or set back to awaiting_name) only by
\* the join branch when its lookup found no user; it moves only from
\* awaiting_name to awaiting_email, when a message without "join" is
\* delivered; it is removed only by the awaiting_email branch after the
\* insert of the user succeeded.  No other step changes an entry.
C20_EntryLifecycle ==
  [][\A p \in Phones :
       userOnboardingState'[p] # userOnboardingState[p] =>
         \/ \E h \in Handlers :
              /\ HandlesJoin(h)
              /\ phoneOf(handler[h].req) = p
              /\ handler[h].pc = "join_lookup"
              /\ handler[h].io.tag \in {"PGRST116", "error"}
              /\ Stepped(h)
              /\ userOnboardingState'[p] = NameStep
         \/ \E req \in Requests :
              /\ Received(req)
              /\ phoneOf(req) = p
              /\ req.MessageStatus = ""
              /\ ~containsJoin[req.Body]
              /\ userOnboardingState[p].step = "name"
              /\ userOnboardingState'[p] = [step |-> "email", data |-> <<trim(req.Body)>>]
         \/ \E h \in Handlers :
              /\ handler[h].pc = "insert_user"
              /\ phoneOf(handler[h].req) = p
              /\ handler[h].io.tag = "row"
              /\ Stepped(h)
              /\ Registered(p)
              /\ userOnboardingState'[p] = Absent]_vars

\* The whole life of an entry: the email step has just removed it.
C20_Witness ==
  /\ finished.req.Body = B_Email
  /\ finished.sent = <<"completed">>
  /\ Registered(phoneOf(finished.req))
  /\ ~Onboarding(phoneOf(finished.req))
  /\ deliveries = 3

\* The expense rows of a phone: the rows of the user with that number.
C21_OwnedBy(q) == {e \in expenses : \E u \in usersByPhone(q) : e.user_id = u.id}

\* What the store and the onboarding map hold for a phone.
C21_StateOf(q) == <<userOnboardingState[q], usersByPhone(q), C21_OwnedBy(q)>>

\* The step leaves every phone but p as it was.
C21_OthersUntouched(p) == \A q \in Phones \ {p} : C21_StateOf(q)' = C21_StateOf(q)

\* The parsed fields an expense row carries.
C21_FieldsOf(e) ==
  [merchant |-> e.merchant, amount |-> e.amount, date |-> e.date, category |-> e.category,
   currency |-> e.currency, language |-> e.language]

\* C21: every step of the handling of a message from phone p (its delivery,
\* each call of the store, each continuation, ending well or in an error)
\* leaves the onboarding entry, the user row and the expense rows of every
\* other phone unchanged; and what the handling of q's message produces is
\* fixed by q's own message: the expense row it persists carries the image of
\* that message and the fields parsed from that image, whatever another
\* phone sent meanwhile.
C21_PhonesAreIndependent ==
  [][/\ \A req \in Requests : Received(req) => C21_OthersUntouched(phoneOf(req))
     /\ \A h \in Handlers :
          (handler[h].pc # "idle" /\ Stepped(h)) =>
            /\ C21_OthersUntouched(phoneOf(handler[h].req))
            /\ \A e \in expenses' \ expenses :
                 /\ e.image_url = handler[h].req.Media.MediaUrl0
                 /\ C21_FieldsOf(e) = ParsedOf(TextOf(handler[h].req.Media.MediaUrl0))]_vars

\* The first half of C21 alone: no step of a handling touches another phone.
C21_Frame ==
  [][/\ \A req \in Requests : Received(req) => C21_OthersUntouched(phoneOf(req))
     /\ \A h \in Handlers :
          (handler[h].pc # "idle" /\ Stepped(h)) =>
            C21_OthersUntouched(phoneOf(handler[h].req))]_vars

\* The stages of the receipt pipeline: extraction, parsing, getOrCreateUser
\* and the insert of the expense.
ReceiptStages == {"extract", "parse", "goc_lookup", "goc_insert", "insert_expense"}

\* C22: the webhook creates an expense row only for a sender with a persisted
\* user whose message was dispatched while the phone had no onboarding entry.
\* The delivery of an image (without "join" in its text) to a phone that has
\* an entry ends as the name or email answer, in that step: the email prompt
\* or the re-prompt is the one message sent, and no handler enters the
\* pipeline.  A handler enters the pipeline only from the lookup of the
\* sender, when the lookup returned the user of an image message, and a
\* delivery starts that lookup only for a phone without entry.  A lookup that
\* finds no user ends with the prompt to send "join" and nothing else (a
\* lookup the store fails: 500 and no message in app.js, the same prompt in
\* the controller).  Every expense row added is added by the insert of a
\* handler in the pipeline and carries the id of the sender's user.
C22_ExpenseOnlyWhenRegistered ==
  [][/\ \A req \in Requests :
          LET p == phoneOf(req)
          IN  Received(req) =>
                /\ \A h \in Handlers :
                     Stepped(h) =>
                       /\ handler'[h].pc \notin ReceiptStages
                       /\ handler'[h].pc = "user_lookup" => userOnboardingState[p] = Absent
                /\ (isReceiptImage(req) /\ userOnboardingState[p] # Absent) =>
                     /\ finished'.req = req
                     /\ finished'.sent = IF userOnboardingState[p].step = "name"
                                         THEN <<"ask_email">> ELSE <<"invalid_email">>
                     /\ userOnboardingState'[p].step = "email"
                     /\ \A h \in Handlers : handler'[h] = handler[h]
                     /\ users' = users
                     /\ expenses' = expenses
     /\ \A h \in Handlers :
          LET r == handler[h]
              p == phoneOf(r.req)
          IN  (r.pc # "idle" /\ Stepped(h)) =>
                /\ (handler'[h].pc \in ReceiptStages /\ r.pc \notin ReceiptStages) =>
                     /\ r.pc = "user_lookup"
                     /\ r.io.tag = "row"
                     /\ r.io.row \in usersByPhone(p)
                     /\ isReceiptImage(r.req)
                /\ (r.pc = "user_lookup" /\ r.io.tag \in {"PGRST116", "error"}) =>
                     /\ finished'.req = r.req
                     /\ IF lookupThrows(r.io)
                        THEN finished'.sent = << >> /\ finished'.resp = "500"
                        ELSE finished'.sent = <<"prompt_join">>
                     /\ users' = users
                     /\ expenses' = expenses
                     /\ userOnboardingState' = userOnboardingState
     /\ expenses' # expenses =>
          \E h \in Handlers :
            /\ handler[h].pc = "insert_expense"
            /\ Stepped(h)
            /\ \A e \in expenses' \ expenses :
                 \E u \in usersByPhone(phoneOf(handler[h].req)) : e.user_id = u.id]_vars

\* A phone joined, gave its name and then sent a photo: the photo was taken
\* as the email answer.
C22_Witness ==
  /\ isReceiptImage(finished.req)
  /\ finished.sent = <<"invalid_email">>
  /\ userOnboardingState[phoneOf(finished.req)] = [step |-> "email", data |-> <<E_Name>>]
  /\ ~Registered(phoneOf(finished.req))
  /\ expenses = {}

(***************************************************************************)
(* Phones at the awaiting_email step that send their email until the       *)
(* insert of the user is accepted.  The messages of one phone are handled  *)
(* one after the other; the store may fail any insert.                     *)
(***************************************************************************)
\* A message of the phone is being handled.
InFlight(p) ==
  \E h \in Handlers : handler[h].pc # "idle" /\ phoneOf(handler[h].req) = p

\* Every phone has joined and given its name.  A phone at that step has no
\* user, or has one all the same: the join branch of the controller starts
\* the onboarding of a registered phone when its lookup fails in the store,
\* and in app.js a "join" handled while the email is being handled leaves an
\* entry behind the registration.
InitAwaitingEmail ==
  /\ impl \in {"app", "controller"}
  /\ users \in {{SeedUser(p) : p \in R} : R \in SUBSET Phones}
  /\ expenses = {}
  /\ userOnboardingState = [p \in Phones |-> [step |-> "email", data |-> <<trimmed[B_Name]>>]]
  /\ globals = NoGlobals
  /\ handler = [h \in Handlers |-> Idle]
  /\ finished = NoFinished
  /\ deliveries = 0
  /\ sender = SenderIdle
  /\ api = ApiIdle

EmailRetryRequests == {req \in TextRequests : req.Body = B_Email}

NextEmailRetry ==
  \E h \in Handlers :
    \/ \E req \in EmailRetryRequests :
         /\ ~InFlight(phoneOf(req))
         /\ userOnboardingState[phoneOf(req)].step = "email"
         /\ Receive(h, req, MaxRetryDeliveries)
    \/ DbInsertUser(h)
    \/ EmailResume(h)

SpecEmailRetry == InitAwaitingEmail /\ [][NextEmailRetry]_vars

\* C23: whenever the insert of the new user fails at the awaiting_email step
\* and the handler resumes, the phone's entry is still awaiting_email with the
\* collected name, no user row exists for the phone, and the step adds none.
C23_FailedInsertLeavesNoUser ==
  [][\A h \in Handlers :
       LET r == handler[h]
           p == phoneOf(r.req)
       IN  (r.pc = "insert_user" /\ r.io.tag = "error" /\ Stepped(h)) =>
             /\ userOnboardingState'[p] = [step |-> "email", data |-> <<r.newUser.name>>]
             /\ usersByPhone(p) = {}
             /\ users' = users]_vars

\* What holds of C23 when the messages of a phone are handled one after the
\* other: a failed insert adds no row, and the handler, resuming, ends with
\* the error, sends nothing and leaves the onboarding map and the users as
\* they were, the entry at awaiting_email with the collected name; a valid
\* email sent afterwards is dispatched to the insert again with that name,
\* and when the store returns the row the entry is deleted and the completion
\* message sent.  A phone that has a user already is refused by the unique
\* index each time.
C23_FailedInsertKeepsEntry ==
  [][/\ \A h \in Handlers :
          LET r == handler[h]
              p == phoneOf(r.req)
          IN  (r.pc = "insert_user" /\ Stepped(h)) =>
                /\ (r.io = Pending /\ handler'[h].io.tag = "error") =>
                     /\ users' = users
                     /\ userOnboardingState' = userOnboardingState
                /\ (r.io = Pending /\ usersByPhone(p) # {}) => handler'[h].io.tag = "error"
                /\ r.io.tag = "error" =>
                     /\ finished'.req = r.req
                     /\ finished'.err = "db_error"
                     /\ finished'.sent = << >>
                     /\ userOnboardingState' = userOnboardingState
                     /\ userOnboardingState'[p] = [step |-> "email", data |-> <<E_Name>>]
                     /\ users' = users
                /\ r.io.tag = "row" =>
                     /\ finished'.req = r.req
                     /\ finished'.sent = <<"completed">>
                     /\ userOnboardingState'[p] = Absent
                     /\ r.io.row \in usersByPhone(p)
     /\ \A req \in EmailRetryRequests :
          Received(req) =>
            \E h \in Handlers :
              /\ handler'[h].pc = "insert_user"
              /\ handler'[h].io = Pending
              /\ handler'[h].newUser =
                   [id |-> 0, phone |-> phoneOf(req), name |-> E_Name, email |-> E_Email]]_vars

\* Two phones without user, three emails: the insert of one failed, and a
\* later email of the same phone completed its registration.
C23_RetryCompletes ==
  /\ deliveries = 3
  /\ Quiet
  /\ \A p \in Phones :
       /\ userOnboardingState[p] = Absent
       /\ \E u \in usersByPhone(p) : u.name = E_Name /\ u.email = E_Email
  /\ finished.req.Body = B_Email
  /\ finished.sent = <<"completed">>
  /\ finished.err = ""

\* The handling that ended in this step told the sender that the receipt
\* could not be processed.
C24_ToldFailure == \E i \in 1..Len(finished'.sent) : finished'.sent[i] = "receipt_failed"

\* C24: a handling that sends the generic failure message has created no
\* expense row for its receipt: the handler whose insert of the expense
\* succeeded never sends that message, also when the send of the success
\* confirmation fails.
C24_NoFailureAfterInsert ==
  [][\A h \in Handlers :
       LET r == handler[h]
       IN  (r.pc # "idle" /\ Stepped(h) /\ finished'.req = r.req /\ C24_ToldFailure) =>
             ~(r.pc = "insert_expense" /\ r.io.tag = "row")]_vars

(***************************************************************************)
(* Onboarding in order.  Each phone without user sends "join", then its    *)
(* name, then its email, each message after the one before it has been     *)
(* handled to its end, and every external call (lookup, insert, send)      *)
(* succeeds.  Handlers of different phones interleave.                     *)
(***************************************************************************)
\* No call has failed: the store has answered no error and no handling has
\* ended in an error.
Healthy ==
  /\ finished.err = ""
  /\ \A h \in Handlers : handler[h].io.tag # "error"

\* The message the phone sends next.
Expected(p) ==
  IF userOnboardingState[p].step = "name" THEN B_Name
  ELSE IF userOnboardingState[p].step = "email" THEN B_Email
  ELSE B_Join

OrderedDelivery(p) ==
  /\ ~Registered(p)
  /\ ~InFlight(p)
  /\ \E h \in Handlers : \E req \in TextRequests :
       /\ phoneOf(req) = p
       /\ req.Body = Expected(p)
       /\ Receive(h, req, MaxOrderedDeliveries)
  /\ Healthy'

\* The store answers a handler, or the handler resumes.
HandlerStep(h) ==
  /\ \/ DbSelectUser(h)
     \/ DbInsertUser(h)
     \/ JoinResume(h)
     \/ EmailResume(h)
  /\ Healthy'

NextOrdered ==
  \/ \E p \in Phones : OrderedDelivery(p)
  \/ \E h \in Handlers : HandlerStep(h)

\* The messages are delivered, and the runtime runs every handler that can
\* go on.
SpecOrdered ==
  /\ Init
  /\ [][NextOrdered]_vars
  /\ \A p \in Phones : WF_vars(OrderedDelivery(p))
  /\ \A h \in Handlers : WF_vars(HandlerStep(h))

\* The phone is registered with what it answered, and has no entry.
C25_Onboarded(p) ==
  /\ userOnboardingState[p] = Absent
  /\ \E u \in usersByPhone(p) : u.name = E_Name /\ u.email = E_Email

\* C25: when "join", a name and a valid email of an unregistered phone are
\* delivered in that order, each handled to its end and every external call
\* succeeding, the phone eventually has a persisted user, with the name and
\* email it gave, and no onboarding entry; and no session stays in a step: an
\* entry at awaiting_name moves on to awaiting_email, and an entry at
\* awaiting_email ends in the registration.
C25_OnboardingCompletes ==
  \A p \in Phones :
    /\ (~Registered(p)) ~> C25_Onboarded(p)
    /\ (userOnboardingState[p].step = "name") ~> (userOnboardingState[p].step = "email")
    /\ (userOnboardingState[p].step = "email") ~> C25_Onboarded(p)

\* Both phones have gone through the three steps.
C25_Witness ==
  /\ deliveries = 6
  /\ Quiet
  /\ \A p \in Phones : C25_Onboarded(p)
  /\ finished.req.Body = B_Email
  /\ finished.sent = <<"completed">>

====
